---- MODULE Spec2Model ----
(***************************************************************************)
(* Model of `pull` (src/src/cmd.rs): N scroll workers of a thread pool     *)
(* feed a bounded crossbeam channel, one output thread drains it into the  *)
(* sink, a closer thread joins the pool and drops the last sender, and the *)
(* main thread joins the progress display and the output thread.           *)
(***************************************************************************)
EXTENDS Integers, Sequences, FiniteSets, TLC

\* ---------------------------------------------------------------- bounds
MaxSlice == 2        \* slice counts 1..MaxSlice
MaxDocs  == 3        \* the result set of the query holds at most MaxDocs documents

\* lines the BufWriter of the output thread holds before it flushes to the file
BufLines == 2

\* ------------------------------------------------------------ JSON values
EmptyMap == [k \in {} |-> 0]

JObject(m) == [type |-> "object", map |-> m]

JArray == [type |-> "array", map |-> EmptyMap]

PlainQuery == JObject([k \in {"query"} |-> "match_all"])

\* a query that already holds a top-level "slice" key
SlicedQuery ==
    JObject([k \in {"query", "slice"} |->
               IF k = "slice" THEN [id |-> 7, max |-> 9] ELSE "match_all"])

\* the query documents the query file may hold
Queries == { PlainQuery, SlicedQuery, JArray }

Unreadable == [type |-> "unreadable", map |-> EmptyMap]

\* the query file: a JSON document, or a file that cannot be opened or parsed
QueryFiles == Queries \cup {Unreadable}

Ttls == {"1m", "5m"}

None == <<>>

Some(x) == <<x>>

Batches == {None, Some(100)}

PullOpts == [slice : 1..MaxSlice, query : QueryFiles, batch : Batches, ttl : Ttls]

\* the options with the request parameters fixed
CoreOpts ==
    [slice : 1..MaxSlice, query : {PlainQuery, JArray, Unreadable}, batch : {None},
     ttl : {"5m"}]

\* ------------------------------------------------------------------ state
VARIABLES
    opt,        \* PullOpt: slice, query (file content), batch, ttl
    svc,        \* the service: documents of the result set not yet returned
    query,      \* the caller's parsed query (line 40)
    wquery,     \* per worker: its own copy of the query (line 48)
    pc,         \* per worker: position of the closure
    docs,       \* per worker: the page parsed last, to be sent
    scroll_id,  \* per worker: the cursor token
    finished,   \* per worker: the loop flag
    lastReq,    \* per worker: the request issued last
    lastRes,    \* per worker: the answer to it
    reqs,       \* per worker: number of requests issued
    fetched,    \* per worker: all documents of all pages parsed, in fetch order
    sent,       \* per worker: number of batches accepted by the channel
    werr,       \* per worker: the panic message, "" when none
    pbMsg, pbPos, pbLen, pbStatus,   \* per worker: its progress bar
    chan,       \* the channel's queue of batches
    txHeld,     \* holders of a live Sender handle
    rxAlive,    \* the Receiver handle is live
    wpc,        \* output thread position
    cur,        \* output thread: documents of the received batch not yet written
    buf,        \* output thread: lines held in the BufWriter
    output,     \* lines written to the output file
    sinkErr,    \* a create, write or flush of the sink has failed
    cpc,        \* closer thread position
    mpc,        \* main thread position
    result      \* what pull returned

reqVars == << lastReq, lastRes, reqs >>

pageVars == << docs, scroll_id, finished, fetched >>

pbVars == << pbMsg, pbPos, pbLen, pbStatus >>

workerVars == << wquery, pc, pageVars, reqVars, sent, werr, pbVars >>

chanVars == << chan, txHeld, rxAlive >>

sinkVars == << wpc, cur, buf, output, sinkErr >>

vars == << opt, svc, query, workerVars, chanVars, sinkVars, cpc, mpc, result >>

Workers == 0 .. (opt.slice - 1)

NoBody == [wellformed |-> FALSE, hits |-> <<>>, scroll |-> <<>>, total |-> 0]

NoRes == [sent |-> FALSE, status |-> -1, body |-> NoBody]

\* the query part of a request that carries no query
NoQuery == [type |-> "none", map |-> EmptyMap]

NoReq == [kind |-> "none", scroll |-> "", size |-> None, body |-> NoQuery, scroll_id |-> <<>>]

\* before pull is called
InitRun ==
    /\ query = JArray
    /\ wquery = [w \in Workers |-> JArray]
    /\ pc = [w \in Workers |-> "unspawned"]
    /\ docs = [w \in Workers |-> <<>>]
    /\ scroll_id = [w \in Workers |-> <<>>]
    /\ finished = [w \in Workers |-> FALSE]
    /\ lastReq = [w \in Workers |-> NoReq]
    /\ lastRes = [w \in Workers |-> NoRes]
    /\ reqs = [w \in Workers |-> 0]
    /\ fetched = [w \in Workers |-> <<>>]
    /\ sent = [w \in Workers |-> 0]
    /\ werr = [w \in Workers |-> ""]
    /\ pbMsg = [w \in Workers |-> ""]
    /\ pbPos = [w \in Workers |-> 0]
    /\ pbLen = [w \in Workers |-> 0]
    /\ pbStatus = [w \in Workers |-> "none"]
    /\ chan = <<>>
    /\ txHeld = {}
    /\ rxAlive = FALSE
    /\ wpc = "unspawned"
    /\ cur = <<>>
    /\ buf = <<>>
    /\ output = <<>>
    /\ sinkErr = FALSE
    /\ cpc = "unspawned"
    /\ mpc = "start"
    /\ result = "none"

Init ==
    /\ opt \in CoreOpts
    /\ svc = MaxDocs
    /\ InitRun

\* every option, against a result set of one document
InitInputs ==
    /\ opt \in PullOpts
    /\ svc = 1
    /\ InitRun

\* ------------------------------------------------------- pure operators
Closer == -1     \* the holder id of the Sender the closer thread owns

\* a channel with one slot too many
CapacityPlusOne == opt.slice + 1

\* line 42: crossbeam_channel::bounded(slice as usize)
Capacity == opt.slice

\* a channel that hands out the newest batch first
ChanSendLifo(q, batch) == << batch >> \o q

\* a send the channel accepts
ChanSend(q, batch) == Append(q, batch)

\* serde_json Map::insert: adds the key or replaces its value
Insert(m, key, val) == [k \in (DOMAIN m) \cup {key} |-> IF k = key THEN val ELSE m[k]]

IsObject(q) == q.type = "object"

\* slice ids counted from one, like the bar's prefix
SliceQueryOneBased(q, slice_id, n) ==
    IF n > 1
    THEN JObject(Insert(q.map, "slice", [id |-> slice_id + 1, max |-> n]))
    ELSE q

\* lines 72-82: the worker's query after the slice annotation (q an object)
SliceQuery(q, slice_id, n) ==
    IF n > 1
    THEN JObject(Insert(q.map, "slice", [id |-> slice_id, max |-> n]))
    ELSE q

\* lines 84-87: the query-string parameters of the initial request
InitialParams ==
    [scroll |-> "1m", size |-> IF opt.batch # None THEN Some(opt.batch[1]) ELSE None]

\* lines 88-93: the initial search request
InitialRequest(q) ==
    [kind |-> "search", scroll |-> InitialParams.scroll, size |-> InitialParams.size,
     body |-> q, scroll_id |-> <<>>]

\* a continuation request that keeps sending the first cursor of the slice
ScrollRequestStale(id) ==
    [kind |-> "scroll", scroll |-> opt.ttl, size |-> None, body |-> NoQuery,
     scroll_id |-> << id[1], 1 >>]

\* lines 110-117: the continuation request
ScrollRequest(id) ==
    [kind |-> "scroll", scroll |-> opt.ttl, size |-> None, body |-> NoQuery,
     scroll_id |-> id]

\* the documents of page p of slice w when it holds n documents
Page(w, p, n) == [k \in 1..n |-> <<w, p, k>>]

\* hits.total as the service reports it
HitsTotal == MaxDocs

\* what the service may answer to request number p of worker w: no answer
\* (transport error), a non-200 status, a 200 with a body that is no
\* ScrollResponse, or a 200 with the next page, which is empty once the result
\* set is exhausted
Responses(w, p) ==
    { [sent |-> FALSE, status |-> 0, body |-> NoBody],
      [sent |-> TRUE, status |-> 500, body |-> NoBody],
      [sent |-> TRUE, status |-> 200, body |-> NoBody] }
    \cup
    { [sent |-> TRUE, status |-> 200,
       body |-> [wellformed |-> TRUE, hits |-> Page(w, p, n),
                 scroll |-> <<w, p>>, total |-> HitsTotal]] :
        n \in 0..svc }

ParseErr == [ok |-> FALSE, docs |-> <<>>, scroll_id |-> <<>>, total |-> 0]

\* a parse that takes every 200 body, filling what is missing with defaults
parse_response_lenient(res) ==
    IF res.status # 200 THEN ParseErr
    ELSE [ok |-> TRUE, docs |-> res.body.hits, scroll_id |-> res.body.scroll,
          total |-> res.body.total]

\* lines 157-167
parse_response(res) ==
    IF res.status # 200 THEN ParseErr
    ELSE IF ~res.body.wellformed THEN ParseErr
    ELSE [ok |-> TRUE, docs |-> res.body.hits, scroll_id |-> res.body.scroll,
          total |-> res.body.total]

\* --------------------------------------------------------------- main, 1
\* lines 39-68, 137, 143: read the query, create channel, bars, pool and threads
PullStart ==
    /\ mpc = "start"
    /\ IF opt.query = Unreadable
       THEN /\ mpc' = "returned"
            /\ result' = "Err"
            /\ UNCHANGED << query, wquery, pc, pbVars, txHeld, rxAlive, wpc, cpc >>
       ELSE /\ query' = opt.query
            /\ wquery' = [w \in Workers |-> opt.query]
            /\ pc' = [w \in Workers |-> "queued"]
            /\ pbMsg' = [w \in Workers |-> "Starting..."]
            /\ pbPos' = [w \in Workers |-> 0]
            /\ pbLen' = [w \in Workers |-> 1]
            /\ pbStatus' = [w \in Workers |-> "InProgress"]
            /\ txHeld' = Workers \cup {Closer}
            /\ rxAlive' = TRUE
            /\ wpc' = "create"
            /\ cpc' = "join"
            /\ mpc' = "mpb_join"
            /\ UNCHANGED result
    /\ UNCHANGED << opt, svc, pageVars, reqVars, sent, werr, chan, cur, buf, output,
                    sinkErr >>

\* ---------------------------------------------------------------- workers
\* a panic that ends every closure of the pool that has not returned
AbortPool(w, msg) ==
    /\ pc' = [v \in Workers |-> IF pc[v] = "done" THEN "done" ELSE "failed"]
    /\ werr' = [werr EXCEPT ![w] = msg]
    /\ txHeld' = txHeld \ { v \in Workers : pc[v] # "done" }
    /\ pbStatus' = [v \in Workers |-> IF pc[v] = "done" THEN pbStatus[v] ELSE "DoneHidden"]

\* a panic of the closure: the unwinding drops its Sender and its ProgressBar,
\* and dropping an unfinished bar marks it done and hidden
Abort(w, msg) ==
    /\ pc' = [pc EXCEPT ![w] = "failed"]
    /\ werr' = [werr EXCEPT ![w] = msg]
    /\ txHeld' = txHeld \ {w}
    /\ pbStatus' = [pbStatus EXCEPT ![w] = "DoneHidden"]

\* a bar whose position is set to the size of the page
pb_set_position(pos, delta) == delta

\* lines 104 and 124: pb.inc(docs.len())
pb_inc(pos, delta) == pos + delta

\* lines 94-106 and 118-125: the outcome of a request
Receive(w, res, first) ==
    /\ lastRes' = [lastRes EXCEPT ![w] = res]
    /\ IF ~res.sent
       THEN /\ Abort(w, "error sending request")
            /\ UNCHANGED << svc, pageVars, pbMsg, pbPos, pbLen >>
       ELSE LET r == parse_response(res) IN
            IF ~r.ok
            THEN /\ Abort(w, "error parsing response")
                 /\ UNCHANGED << svc, pageVars, pbMsg, pbPos, pbLen >>
            ELSE /\ svc' = svc - Len(r.docs)
                 /\ docs' = [docs EXCEPT ![w] = r.docs]
                 /\ scroll_id' = [scroll_id EXCEPT ![w] = r.scroll_id]
                 /\ pbMsg' = [pbMsg EXCEPT ![w] = IF first THEN "Running..." ELSE @]
                 /\ pbLen' = [pbLen EXCEPT ![w] = r.total]
                 /\ pbPos' = [pbPos EXCEPT ![w] = pb_inc(@, Len(r.docs))]
                 /\ finished' = [finished EXCEPT ![w] = (r.docs = <<>>)]
                 /\ fetched' = [fetched EXCEPT ![w] = @ \o r.docs]
                 /\ pc' = [pc EXCEPT ![w] = "send"]
                 /\ UNCHANGED << werr, txHeld, pbStatus >>

\* line 73: as_object_mut().unwrap() on a query that is no object
WorkerUnwrapPanic(w) ==
    /\ pc[w] = "queued"
    /\ opt.slice > 1
    /\ ~IsObject(wquery[w])
    /\ Abort(w, "called Option::unwrap() on a None value")
    /\ UNCHANGED << opt, svc, query, wquery, pageVars, reqVars, sent, pbMsg, pbPos, pbLen,
                    chan, rxAlive, sinkVars, cpc, mpc, result >>

\* lines 70-106: annotate the query, issue the initial request, parse the answer
WorkerInitial(w) ==
    /\ pc[w] = "queued"
    /\ opt.slice > 1 => IsObject(wquery[w])
    /\ wquery' = [wquery EXCEPT ![w] = SliceQuery(@, w, opt.slice)]
    /\ lastReq' = [lastReq EXCEPT ![w] = InitialRequest(wquery'[w])]
    /\ reqs' = [reqs EXCEPT ![w] = @ + 1]
    /\ \E res \in Responses(w, reqs'[w]) : Receive(w, res, TRUE)
    /\ UNCHANGED << opt, query, sent, chan, rxAlive, sinkVars, cpc, mpc, result >>

\* a worker that returns and leaves its bar unfinished
FinishNoBar(w) ==
    /\ pc' = [pc EXCEPT ![w] = "done"]
    /\ txHeld' = txHeld \ {w}
    /\ UNCHANGED << werr, pbMsg, pbStatus >>

\* lines 129-133 and the end of the closure: finish the bar, drop the Sender
Finish(w) ==
    /\ pc' = [pc EXCEPT ![w] = "done"]
    /\ pbMsg' = [pbMsg EXCEPT ![w] = "Finished."]
    /\ pbStatus' = [pbStatus EXCEPT ![w] = "DoneVisible"]
    /\ txHeld' = txHeld \ {w}
    /\ UNCHANGED werr

\* a send that pushes only the non-empty pages
WorkerSendSkipEmpty(w) ==
    /\ pc[w] = "send"
    /\ rxAlive
    /\ Len(chan) < Capacity
    /\ chan' = IF docs[w] = <<>> THEN chan ELSE ChanSend(chan, docs[w])
    /\ sent' = [sent EXCEPT ![w] = IF docs[w] = <<>> THEN @ ELSE @ + 1]
    /\ IF finished[w]
       THEN Finish(w)
       ELSE /\ pc' = [pc EXCEPT ![w] = "fetch"]
            /\ UNCHANGED << werr, txHeld, pbMsg, pbStatus >>
    /\ UNCHANGED << opt, svc, query, wquery, pageVars, reqVars, pbPos, pbLen, rxAlive,
                    sinkVars, cpc, mpc, result >>

\* a send that pushes a page when it is not empty or is the first of the slice
WorkerSendFirstOrNonEmpty(w) ==
    /\ pc[w] = "send"
    /\ rxAlive
    /\ Len(chan) < Capacity
    /\ chan' = IF docs[w] = <<>> /\ sent[w] > 0 THEN chan ELSE ChanSend(chan, docs[w])
    /\ sent' = [sent EXCEPT ![w] = IF docs[w] = <<>> /\ sent[w] > 0 THEN @ ELSE @ + 1]
    /\ IF finished[w]
       THEN Finish(w)
       ELSE /\ pc' = [pc EXCEPT ![w] = "fetch"]
            /\ UNCHANGED << werr, txHeld, pbMsg, pbStatus >>
    /\ UNCHANGED << opt, svc, query, wquery, pageVars, reqVars, pbPos, pbLen, rxAlive,
                    sinkVars, cpc, mpc, result >>

\* lines 107 and 126: tx.send of the page; blocks while the channel is full
WorkerSend(w) ==
    /\ pc[w] = "send"
    /\ rxAlive
    /\ Len(chan) < Capacity
    /\ chan' = ChanSend(chan, docs[w])
    /\ sent' = [sent EXCEPT ![w] = @ + 1]
    /\ IF finished[w]
       THEN Finish(w)
       ELSE /\ pc' = [pc EXCEPT ![w] = "fetch"]
            /\ UNCHANGED << werr, txHeld, pbMsg, pbStatus >>
    /\ UNCHANGED << opt, svc, query, wquery, pageVars, reqVars, pbPos, pbLen, rxAlive,
                    sinkVars, cpc, mpc, result >>

\* a send that stays blocked when the Receiver is dropped
WorkerSendStuck(w) ==
    /\ pc[w] = "send"
    /\ ~rxAlive
    /\ FALSE
    /\ UNCHANGED vars

\* lines 107 and 126: tx.send fails once the Receiver is dropped
WorkerSendError(w) ==
    /\ pc[w] = "send"
    /\ ~rxAlive
    /\ Abort(w, "error sending result to channel")
    /\ UNCHANGED << opt, svc, query, wquery, pageVars, reqVars, sent, pbMsg, pbPos, pbLen,
                    chan, rxAlive, sinkVars, cpc, mpc, result >>

\* lines 109-125: the continuation request and its answer
WorkerScroll(w) ==
    /\ pc[w] = "fetch"
    /\ lastReq' = [lastReq EXCEPT ![w] = ScrollRequest(scroll_id[w])]
    /\ reqs' = [reqs EXCEPT ![w] = @ + 1]
    /\ \E res \in Responses(w, reqs'[w]) : Receive(w, res, FALSE)
    /\ UNCHANGED << opt, query, wquery, sent, chan, rxAlive, sinkVars, cpc, mpc, result >>

\* ----------------------------------------------------------------- closer
\* a closer that does not wait for the pool
PoolNotJoined == TRUE

\* threadpool join: every job has ended, by returning or by panicking
PoolIdle == \A w \in Workers : pc[w] \in {"done", "failed"}

\* line 138
CloserJoin ==
    /\ cpc = "join"
    /\ PoolIdle
    /\ cpc' = "drop"
    /\ UNCHANGED << opt, svc, query, workerVars, chanVars, sinkVars, mpc, result >>

\* a closer that ends without dropping its Sender
CloserForget ==
    /\ cpc = "drop"
    /\ cpc' = "done"
    /\ UNCHANGED << opt, svc, query, workerVars, chanVars, sinkVars, mpc, result >>

\* line 139
CloserDrop ==
    /\ cpc = "drop"
    /\ txHeld' = txHeld \ {Closer}
    /\ cpc' = "done"
    /\ UNCHANGED << opt, svc, query, wquery, pc, pageVars, reqVars, sent, werr, pbVars,
                    chan, rxAlive, sinkVars, mpc, result >>

\* ---------------------------------------------------------- output thread
\* a panic of the output thread on a failed create or write: the unwinding
\* drops the Receiver and with it the queued batches
WriterPanic ==
    /\ wpc' = "failed"
    /\ rxAlive' = FALSE
    /\ chan' = <<>>
    /\ cur' = <<>>
    /\ sinkErr' = TRUE

\* line 144
WriterCreate ==
    /\ wpc = "create"
    /\ \/ /\ wpc' = "recv"
          /\ UNCHANGED << rxAlive, chan, cur, sinkErr >>
       \/ WriterPanic
    /\ UNCHANGED << opt, svc, query, workerVars, txHeld, buf, output, cpc, mpc, result >>

\* line 145: the next batch of rx.iter()
WriterRecv ==
    /\ wpc = "recv"
    /\ cur = <<>>
    /\ chan # <<>>
    /\ cur' = Head(chan)
    /\ chan' = Tail(chan)
    /\ UNCHANGED << opt, svc, query, workerVars, txHeld, rxAlive, wpc, buf, output,
                    sinkErr, cpc, mpc, result >>

\* lines 146-148: writeln! of one document into the BufWriter, which first
\* flushes to the file when the line does not fit; a failed flush is the
\* error of the write
WriterWrite ==
    /\ wpc = "recv"
    /\ cur # <<>>
    /\ IF Len(buf) + 1 > BufLines
       THEN \/ /\ output' = output \o buf
               /\ buf' = << Head(cur) >>
               /\ cur' = Tail(cur)
               /\ UNCHANGED << wpc, rxAlive, chan, sinkErr >>
            \/ /\ \E k \in 0..(Len(buf) - 1) : output' = output \o SubSeq(buf, 1, k)
               /\ buf' = <<>>
               /\ WriterPanic
       ELSE /\ buf' = Append(buf, Head(cur))
            /\ cur' = Tail(cur)
            /\ UNCHANGED << wpc, rxAlive, chan, sinkErr, output >>
    /\ UNCHANGED << opt, svc, query, workerVars, txHeld, cpc, mpc, result >>

\* the channel exists and all its Senders are dropped
Disconnected == wpc # "unspawned" /\ txHeld = {}

\* what iter() of the Receiver does on an empty channel: end the loop or wait
IterEnds == Disconnected

\* lines 145-150: rx.iter() ends on an empty disconnected channel; the closure
\* ends and drops the Receiver and the BufWriter, whose drop flushes what it
\* holds and ignores a failure
WriterEnd ==
    /\ wpc = "recv"
    /\ cur = <<>>
    /\ chan = <<>>
    /\ IterEnds
    /\ wpc' = "done"
    /\ rxAlive' = FALSE
    /\ \/ /\ output' = output \o buf
          /\ UNCHANGED sinkErr
       \/ /\ buf # <<>>
          /\ \E k \in 0..(Len(buf) - 1) : output' = output \o SubSeq(buf, 1, k)
          /\ sinkErr' = TRUE
    /\ buf' = <<>>
    /\ UNCHANGED << opt, svc, query, workerVars, chan, txHeld, cur, cpc, mpc, result >>

\* --------------------------------------------------------------- main, 2
\* MultiProgress::join returns once every bar is done
BarsDone == \A w \in Workers : pbStatus[w] # "InProgress"

\* line 152
MainMpbJoin ==
    /\ mpc = "mpb_join"
    /\ BarsDone
    /\ mpc' = "out_join"
    /\ UNCHANGED << opt, svc, query, workerVars, chanVars, sinkVars, cpc, result >>

\* line 153: join() is Err exactly when the output thread panicked
JoinUnwrap == IF wpc = "failed" THEN "panic" ELSE "Ok"

\* a join that does not wait for the output thread
OutputNotJoined == TRUE

\* line 153: join() returns once the output thread has ended
OutputJoined == wpc \in {"done", "failed"}

\* lines 153-154
MainOutJoin ==
    /\ mpc = "out_join"
    /\ OutputJoined
    /\ result' = JoinUnwrap
    /\ mpc' = "returned"
    /\ UNCHANGED << opt, svc, query, workerVars, chanVars, sinkVars, cpc >>

Next ==
    \/ PullStart
    \/ \E w \in Workers : WorkerUnwrapPanic(w)
    \/ \E w \in Workers : WorkerInitial(w)
    \/ \E w \in Workers : WorkerSend(w)
    \/ \E w \in Workers : WorkerSendError(w)
    \/ \E w \in Workers : WorkerScroll(w)
    \/ CloserJoin
    \/ CloserDrop
    \/ WriterCreate
    \/ WriterRecv
    \/ WriterWrite
    \/ WriterEnd
    \/ MainMpbJoin
    \/ MainOutJoin

Spec == Init /\ [][Next]_vars

SpecInputs == InitInputs /\ [][Next]_vars

\* the closer thread and the output thread are OS threads: each runs when it can
FairSpec ==
    /\ Spec
    /\ WF_vars(CloserJoin) /\ WF_vars(CloserDrop)
    /\ WF_vars(WriterCreate) /\ WF_vars(WriterRecv)
    /\ WF_vars(WriterWrite) /\ WF_vars(WriterEnd)

\* the pool runs N threads for N jobs and main is a thread of its own: every
\* thread of the run takes its next step when it can
LiveSpec ==
    /\ FairSpec
    /\ WF_vars(PullStart) /\ WF_vars(MainMpbJoin) /\ WF_vars(MainOutJoin)
    /\ \A w \in 0 .. (MaxSlice - 1) :
         /\ WF_vars(w \in Workers /\ WorkerUnwrapPanic(w))
         /\ WF_vars(w \in Workers /\ WorkerInitial(w))
         /\ WF_vars(w \in Workers /\ WorkerSend(w))
         /\ WF_vars(w \in Workers /\ WorkerSendError(w))
         /\ WF_vars(w \in Workers /\ WorkerScroll(w))

\* ----------------------------------------------------------------- claims
RECURSIVE SumLen(_, _)
SumLen(f, S) ==
    IF S = {} THEN 0
    ELSE LET w == CHOOSE x \in S : TRUE IN Len(f[w]) + SumLen(f, S \ {w})

\* no worker panicked
NoWorkerError == \A w \in Workers : werr[w] = ""

FromSlice(seq, w) == SelectSeq(seq, LAMBDA d : d[1] = w)

IsPrefix(a, b) == Len(a) <= Len(b) /\ SubSeq(b, 1, Len(a)) = a

\* the documents of one page are adjacent in seq
BatchesContiguous(seq) ==
    \A i, j \in 1..Len(seq) :
        (i < j /\ seq[i][1] = seq[j][1] /\ seq[i][2] = seq[j][2])
            => \A m \in i..j : seq[m][1] = seq[i][1] /\ seq[m][2] = seq[i][2]

\* C1: when pull returns Ok in a run where no worker failed and the sink took
\* every write, the number of lines in the output equals the number of
\* documents of all pages fetched by all workers.
C1_LinesEqualDocs ==
    (result = "Ok" /\ NoWorkerError /\ ~sinkErr) => Len(output) = SumLen(fetched, Workers)

C1_Witness ==
    /\ result = "Ok" /\ NoWorkerError /\ ~sinkErr
    /\ opt.slice = 2
    /\ \A w \in Workers : fetched[w] # <<>>
    /\ Len(output) = 3

\* C2: the lines of the output that come from one slice are, in order, a
\* prefix of the documents of that slice's pages in fetch order, all of them
\* once pull has returned Ok with the sink intact; the documents of a page are
\* never separated by a document of another page.
C2_PerSliceOrder ==
    /\ \A w \in Workers :
         /\ IsPrefix(FromSlice(output, w), fetched[w])
         /\ (result = "Ok" /\ ~sinkErr) => FromSlice(output, w) = fetched[w]
    /\ BatchesContiguous(output)

C2_Witness ==
    /\ result = "Ok" /\ ~sinkErr
    /\ opt.slice = 2
    /\ \E w \in Workers :
         /\ Len(fetched[w]) = 2 /\ fetched[w][1][2] # fetched[w][2][2]
         /\ \E i \in 1..Len(output) : output[i][1] # w
    /\ output[1][1] # output[2][1]

\* every worker closure has ended, by returning or by panicking
AllTerminated == \A w \in Workers : pc[w] \in {"done", "failed"}

Running(w) == pc[w] \in {"queued", "send", "fetch"}

\* C3: the channel is disconnected only once the closer has joined the pool and
\* dropped its Sender, and that drop is the step that disconnects it; the
\* closer passes the join, and the output thread ends with the sink intact,
\* only when every worker has ended; no running worker sees a disconnected
\* channel.
C3_CloseAfterJoin ==
    /\ [](/\ cpc \in {"drop", "done"} => AllTerminated
          /\ (wpc # "unspawned" /\ txHeld = {}) => cpc = "done"
          /\ (wpc \in {"done", "failed"} /\ ~sinkErr) => AllTerminated
          /\ \A w \in Workers : Running(w) => ~(wpc # "unspawned" /\ txHeld = {}))
    /\ [][(txHeld # {} /\ txHeld' = {}) => (cpc = "drop" /\ cpc' = "done" /\ AllTerminated)]_vars

C3_Witness ==
    /\ opt.slice = 2
    /\ txHeld = {} /\ cpc = "done"
    /\ \E w \in Workers : pc[w] = "done" /\ sent[w] = 2
    /\ \E w \in Workers : pc[w] = "failed"

\* C4: once every worker has ended, by finishing or by failing, the channel is
\* eventually disconnected and empty and the output thread has ended.
C4_WriterTerminates ==
    AllTerminated ~> (txHeld = {} /\ chan = <<>> /\ cur = <<>> /\ wpc \in {"done", "failed"})

C4_Witness ==
    /\ AllTerminated
    /\ opt.slice = 2
    /\ txHeld # {} /\ Len(chan) = 2 /\ wpc = "recv"
    /\ \E w \in Workers : pc[w] = "failed"
    /\ \E w \in Workers : pc[w] = "done"

RECURSIVE SumOf(_, _)
SumOf(f, S) ==
    IF S = {} THEN 0
    ELSE LET w == CHOOSE x \in S : TRUE IN f[w] + SumOf(f, S \ {w})

C6_Backpressure ==
    /\ [](Len(chan) <= opt.slice)
    /\ [][\A w \in Workers :
            (pc[w] = "send" /\ Len(chan) = opt.slice)
                => (pc'[w] = "send" /\ sent'[w] = sent[w])]_vars

C6_Witness ==
    /\ opt.slice = 2
    /\ Len(chan) = 2
    /\ rxAlive
    /\ \E w \in Workers : pc[w] = "send"

RequestErrors == {"error sending request", "error parsing response"}

\* C7: when a worker has aborted on a transport error, a non-200 status or a
\* malformed body, pull does not return Ok.
C7_WorkerFailureReported ==
    (\E w \in Workers : werr[w] \in RequestErrors) => result # "Ok"

\* the request got no answer, a non-200 status, or a body that does not parse
ResponseFailed(res) == ~res.sent \/ res.status # 200 \/ ~res.body.wellformed

Holds(seq, w) == \E i \in 1..Len(seq) : seq[i][1] = w

\* C8: a worker whose request failed is aborted with all its earlier pages
\* sent and nothing more; an aborted worker issues no request and sends no
\* batch; when the initial request failed no document of that slice is in the
\* channel, the output thread or the output.
C8_AbortIsImmediate ==
    /\ [](\A w \in Workers :
            (reqs[w] >= 1 /\ ResponseFailed(lastRes[w]))
                => /\ pc[w] = "failed"
                   /\ sent[w] = reqs[w] - 1
                   /\ reqs[w] = 1 =>
                        /\ ~Holds(output, w) /\ ~Holds(buf, w) /\ ~Holds(cur, w)
                        /\ \A i \in 1..Len(chan) : ~Holds(chan[i], w))
    /\ [][\A w \in Workers :
            pc[w] = "failed"
                => /\ pc'[w] = "failed"
                   /\ reqs'[w] = reqs[w]
                   /\ lastReq'[w] = lastReq[w]
                   /\ sent'[w] = sent[w]]_vars

C8_Witness ==
    /\ opt.slice = 2
    /\ \E w \in Workers : reqs[w] = 1 /\ lastRes[w].status = 500 /\ pc[w] = "failed"
    /\ \E w \in Workers :
         /\ reqs[w] = 2 /\ lastRes[w].status = 200 /\ ~lastRes[w].body.wellformed
         /\ pc[w] = "failed" /\ Len(FromSlice(output, w)) = 2
    /\ result = "Ok"

\* C9: when a create, a write or a flush of the sink has failed, pull does not
\* return Ok.
C9_SinkFailureFatal == sinkErr => result # "Ok"

\* C10: the caller's query stays as read; a worker's copy stays equal to it
\* until the worker annotates it; an annotated copy is the input itself when
\* N = 1 and, when N > 1, the input with the key "slice" set to
\* {id: worker, max: N} and every other key as in the input.
C10_SlicePlan ==
    (mpc # "start" /\ opt.query # Unreadable) =>
        /\ query = opt.query
        /\ DOMAIN wquery = 0 .. (opt.slice - 1)
        /\ \A w \in Workers :
             IF reqs[w] = 0 THEN wquery[w] = opt.query
             ELSE IF opt.slice = 1 THEN wquery[w] = opt.query
             ELSE /\ IsObject(wquery[w])
                  /\ DOMAIN wquery[w].map = (DOMAIN opt.query.map) \cup {"slice"}
                  /\ wquery[w].map["slice"] = [id |-> w, max |-> opt.slice]
                  /\ \A k \in (DOMAIN opt.query.map) \ {"slice"} :
                       wquery[w].map[k] = opt.query.map[k]
                  /\ lastReq[w].kind = "search" => lastReq[w].body = wquery[w]

C10_Witness ==
    /\ opt.slice = 2
    /\ opt.query = SlicedQuery
    /\ \A w \in Workers : reqs[w] >= 1
    /\ wquery[0] # wquery[1]

\* the query can be sent by every worker: it was read, and it is an object
\* when it has to take a slice key
QueryUsable == opt.query # Unreadable /\ (opt.slice > 1 => IsObject(opt.query))

\* a request of some worker got no response, a non-200 one or a malformed one
SomeRequestFailed ==
    mpc # "start" /\ opt.query # Unreadable
        /\ \E w \in Workers : reqs[w] >= 1 /\ ResponseFailed(lastRes[w])

\* C11: when every thread runs whenever it can, a run with a usable query in
\* which no request fails and the sink takes every write ends: every worker
\* has returned with its bar finished, every Sender is dropped, the output
\* thread has ended and pull has returned Ok.
C11_Terminates ==
    <>( \/ ~QueryUsable
        \/ SomeRequestFailed
        \/ sinkErr
        \/ /\ result = "Ok" /\ mpc = "returned"
           /\ \A w \in Workers : pc[w] = "done" /\ pbMsg[w] = "Finished."
           /\ txHeld = {} /\ cpc = "done" /\ wpc = "done" /\ chan = <<>> )

C11_Witness ==
    /\ QueryUsable /\ ~SomeRequestFailed /\ ~sinkErr
    /\ opt.slice = 2
    /\ result = "Ok"
    /\ \A w \in Workers : pc[w] = "done" /\ sent[w] >= 2
    /\ txHeld = {} /\ wpc = "done"
    /\ Len(output) = MaxDocs

\* C12: the initial search request of every worker carries the configured ttl
\* as its scroll parameter, the worker's query as its body, and a size
\* parameter exactly when a batch size is configured, with that value.
C12_InitialRequestCarriesTtl ==
    (mpc # "start" /\ opt.query # Unreadable) =>
        \A w \in Workers :
            lastReq[w].kind = "search" =>
                /\ lastReq[w].scroll = opt.ttl
                /\ lastReq[w].body = wquery[w]
                /\ lastReq[w].size = (IF opt.batch = None THEN None ELSE opt.batch)

\* C13: the fetches of one worker are sequential. A continuation request is
\* issued only when every earlier page of the worker has been accepted by the
\* channel and the last page was not empty; it carries the cursor of the
\* worker's latest response (a cursor of its own slice), the configured ttl,
\* and no query and no size; after an empty page the worker issues no request.
C13_SequentialFetch ==
    /\ [][\A w \in Workers :
            (reqs[w] >= 1 /\ reqs'[w] # reqs[w]) =>
                /\ reqs'[w] = reqs[w] + 1
                /\ lastRes[w].sent /\ lastRes[w].status = 200
                /\ lastRes[w].body.wellformed
                /\ lastRes[w].body.hits # <<>>
                /\ sent[w] = reqs[w]
                /\ lastReq'[w].kind = "scroll"
                /\ lastReq'[w].scroll_id = lastRes[w].body.scroll
                /\ lastReq'[w].scroll_id[1] = w
                /\ lastReq'[w].scroll = opt.ttl
                /\ lastReq'[w].body = NoQuery
                /\ lastReq'[w].size = None]_vars
    /\ [][\A w \in Workers :
            (reqs[w] >= 1 /\ lastRes[w].body.wellformed /\ lastRes[w].body.hits = <<>>)
                => reqs'[w] = reqs[w] /\ lastReq'[w] = lastReq[w]]_vars

C13_Witness ==
    /\ opt.slice = 2
    /\ \E w \in Workers :
         /\ reqs[w] = 3
         /\ lastReq[w].kind = "scroll" /\ lastReq[w].scroll_id = << w, 2 >>
         /\ lastRes[w].body.wellformed /\ lastRes[w].body.hits = <<>>
         /\ pc[w] = "done"
         /\ \E v \in Workers : v # w /\ reqs[v] = 2 /\ lastReq[v].scroll_id = << v, 1 >>

\* the number of pages of slice w fetched so far that hold a document
NonEmptyPages(w) == Cardinality({ fetched[w][i][2] : i \in 1..Len(fetched[w]) })

\* C14: a worker pushes a page only when it holds a document, except for an
\* empty first page, pushed once: a worker whose first page holds a document
\* has sent no more batches than it fetched non-empty pages, and exactly as
\* many when it has returned.
C14_OnlyNonEmptyPushed ==
    \A w \in Workers :
        /\ sent[w] <= (IF fetched[w] = <<>> THEN 1 ELSE NonEmptyPages(w))
        /\ (pc[w] = "done" /\ fetched[w] # <<>>) => sent[w] = NonEmptyPages(w)

\* C14 as the code has it: every page a worker parsed is pushed, the empty last
\* one too, so a worker about to fetch has sent one batch per request, each of
\* a non-empty page, and a worker that returned has sent one batch per request:
\* its non-empty pages and one empty batch.
C14_EveryPagePushed ==
    \A w \in Workers :
        /\ pc[w] = "send" => sent[w] = reqs[w] - 1
        /\ pc[w] = "fetch" => sent[w] = reqs[w] /\ sent[w] = NonEmptyPages(w)
        /\ pc[w] = "done" => sent[w] = reqs[w] /\ sent[w] = NonEmptyPages(w) + 1

C14_Witness ==
    /\ opt.slice = 2
    /\ \E w \in Workers :
         /\ pc[w] = "done" /\ NonEmptyPages(w) = 2 /\ sent[w] = 3
         /\ \E v \in Workers : pc[v] = "done" /\ fetched[v] = <<>> /\ sent[v] = 1
    /\ wpc = "done" /\ Len(output) = 2

Pushed(w) ==
    Len(fetched[w]) - (IF pc[w] = "send" \/ werr[w] = "error sending result to channel"
                       THEN Len(docs[w]) ELSE 0)

C17_FailedStatusShown ==
    \A w \in Workers :
        /\ werr[w] \in RequestErrors
              => pbMsg[w] \notin {"Starting...", "Running...", "Finished."}
        /\ pc[w] = "done" => pbMsg[w] = "Finished." /\ pbStatus[w] = "DoneVisible"

\* every batch of the channel holds a document and none of them is of slice w
NoneOfSlice(w) ==
    \A i \in 1..Len(chan) : chan[i] # <<>> /\ chan[i][1][1] # w

\* C18: a worker that has no batch of its own waiting in the channel is not
\* blocked on its push, whatever the others have pushed.
C18_OwnSlotFree ==
    \A w \in Workers :
        (pc[w] = "send" /\ rxAlive /\ NoneOfSlice(w)) => ENABLED WorkerSend(w)

\* C18 as the code has it: the N slots of the channel are shared. The push of a
\* worker is blocked exactly when N batches wait in the channel, whoever sent
\* them, and a worker none of whose batches waits there is blocked when the
\* others have filled the channel.
C18_SharedSlots ==
    \A w \in Workers :
        (pc[w] = "send" /\ rxAlive) =>
            /\ (ENABLED WorkerSend(w)) <=> Len(chan) < opt.slice
            /\ (NoneOfSlice(w) /\ Len(chan) = opt.slice) => ~ENABLED WorkerSend(w)

C18_Witness ==
    /\ opt.slice = 2
    /\ Len(chan) = 2
    /\ rxAlive
    /\ \E w \in Workers : pc[w] = "send" /\ NoneOfSlice(w) /\ sent[w] = 0

UnwrapError == "called Option::unwrap() on a None value"

\* C19: the abort of a worker leaves its siblings, the channel and the output
\* thread as they are; a sibling fails only on a request of its own, or on its
\* send once the sink has failed; after a worker failed on a request, unless
\* the sink fails, every other worker ends having returned on its empty page
\* or failed on a request of its own; and when the output thread ends with the
\* sink intact in such a run, every document of every slice that was fetched,
\* hence pushed, is in the output.
C19_SiblingsUnaffected ==
    /\ [][\A w \in Workers :
            (pc[w] # "failed" /\ pc'[w] = "failed") =>
                /\ \A v \in Workers \ {w} :
                     pc'[v] = pc[v] /\ sent'[v] = sent[v] /\ werr'[v] = werr[v]
                /\ chan' = chan /\ rxAlive' = rxAlive /\ wpc' = wpc]_vars
    /\ [](\A v \in Workers :
            pc[v] = "failed" =>
                \/ werr[v] \in RequestErrors /\ ResponseFailed(lastRes[v])
                \/ werr[v] = UnwrapError /\ ~IsObject(opt.query)
                \/ werr[v] = "error sending result to channel" /\ sinkErr)
    /\ (\E w \in Workers : werr[w] \in RequestErrors)
          ~> \/ sinkErr
             \/ \A v \in Workers :
                  \/ werr[v] \in RequestErrors
                  \/ pc[v] = "done" /\ lastRes[v].body.wellformed
                                    /\ lastRes[v].body.hits = <<>>
    /\ []((wpc = "done" /\ ~sinkErr /\ \E w \in Workers : werr[w] \in RequestErrors) =>
            \A v \in Workers :
                /\ pc[v] \in {"done", "failed"}
                /\ FromSlice(output, v) = fetched[v])

C19_Witness ==
    /\ opt.slice = 2
    /\ wpc = "done" /\ ~sinkErr
    /\ \E w \in Workers :
         /\ werr[w] = "error sending request" /\ reqs[w] = 1
         /\ \E v \in Workers :
              /\ pc[v] = "done" /\ reqs[v] = 3 /\ Len(fetched[v]) = MaxDocs
              /\ FromSlice(output, v) = fetched[v]

\* C20: once the output thread has panicked and dropped the Receiver, no send
\* is accepted and no worker waits on the channel: the send of a worker that is
\* at its send fails at once; every worker ends, the closer's join of the pool
\* returns and the closer drops the last Sender.
C20_DeadSinkReleasesWorkers ==
    /\ [](wpc = "failed" =>
            /\ ~rxAlive
            /\ \A w \in Workers :
                 pc[w] = "send" => (ENABLED WorkerSendError(w)) /\ ~ENABLED WorkerSend(w))
    /\ [][wpc = "failed" =>
            \A w \in Workers :
                /\ sent'[w] = sent[w]
                /\ (pc[w] = "send" /\ pc'[w] # "send")
                      => pc'[w] = "failed" /\ werr'[w] = "error sending result to channel"]_vars
    /\ (wpc = "failed")
          ~> /\ \A w \in Workers : pc[w] \in {"done", "failed"}
             /\ cpc = "done"
             /\ txHeld = {}

C20_Witness ==
    /\ opt.slice = 2
    /\ wpc = "failed"
    /\ \A w \in Workers : werr[w] = "error sending result to channel"
    /\ \E w \in Workers : sent[w] = 1
    /\ cpc = "done" /\ txHeld = {}

====
